---- MODULE Spec2Model ----
(***************************************************************************)
(* Model of the dbt-tui run core: the background job runner                *)
(* (services/job_runner.rs), the run output model and its line parser      *)
(* (model/run.rs) and the part of the application loop that drives them    *)
(* (app.rs: Tick, OpenRunOutput, CloseModal, spawn sites).                 *)
(*                                                                         *)
(* Text is modelled by TLA+ strings; positions are 1-based and 0 stands    *)
(* for Rust's None of find/rfind.  The ESC byte 0x1b is written "^".       *)
(***************************************************************************)
EXTENDS Integers, Sequences, FiniteSets, TLC

(***************************************************************************)
(* Bounds of the model                                                     *)
(***************************************************************************)
MaxRunJobs == 1
MaxSampleJobs == 1
MaxLines == 2
MaxModals == 2
MaxHistory == 2
MaxFeed == 3

\* Longest unit table given to compute_layers
MaxUnits == 3

\* Most calls of compute_layers on one unit table
MaxCalls == 2

(***************************************************************************)
(* Text helpers (std::str)                                                 *)
(***************************************************************************)
Min(S) == CHOOSE x \in S : \A y \in S : x <= y

Max(S) == CHOOSE x \in S : \A y \in S : x >= y

Occurrences(s, pat) ==
    { i \in 1..(Len(s) - Len(pat) + 1) : SubSeq(s, i, i + Len(pat) - 1) = pat }

Find(s, pat) == IF Occurrences(s, pat) = {} THEN 0 ELSE Min(Occurrences(s, pat))

RFind(s, pat) == IF Occurrences(s, pat) = {} THEN 0 ELSE Max(Occurrences(s, pat))

Contains(s, pat) == Occurrences(s, pat) # {}

CharAt(s, i) == SubSeq(s, i, i)

IsSpace(c) == c \in {" ", "\t", "\n", "\r"}

Digits == {"0", "1", "2", "3", "4", "5", "6", "7", "8", "9"}

Letters == {"a", "b", "c", "d", "e", "f", "g", "h", "i", "j", "k", "l", "m",
            "n", "o", "p", "q", "r", "s", "t", "u", "v", "w", "x", "y", "z",
            "A", "B", "C", "D", "E", "F", "G", "H", "I", "J", "K", "L", "M",
            "N", "O", "P", "Q", "R", "S", "T", "U", "V", "W", "X", "Y", "Z"}

Trim(s) ==
    LET keep == { i \in 1..Len(s) : ~IsSpace(CharAt(s, i)) }
    IN  IF keep = {} THEN "" ELSE SubSeq(s, Min(keep), Max(keep))

\* str::split_whitespace: the maximal runs of non-space characters, in order
SplitWhitespace(s) ==
    LET starts == { i \in 1..Len(s) :
                      /\ ~IsSpace(CharAt(s, i))
                      /\ (i = 1 \/ IsSpace(CharAt(s, i - 1))) }
        EndOf(i) == Min({ j \in i..Len(s) :
                            j = Len(s) \/ IsSpace(CharAt(s, j + 1)) })
        RECURSIVE Words(_)
        Words(S) == IF S = {} THEN << >>
                    ELSE << SubSeq(s, Min(S), EndOf(Min(S))) >>
                         \o Words(S \ {Min(S)})
    IN  Words(starts)

AllDigits(s) == Len(s) > 0 /\ \A i \in 1..Len(s) : CharAt(s, i) \in Digits

\* str::parse::<u32>(): an optional "+" and decimal digits (overflow is
\* out of reach of the short words of the model)
ParsesU32(w) ==
    IF Len(w) > 0 /\ CharAt(w, 1) = "+" THEN AllDigits(SubSeq(w, 2, Len(w)))
    ELSE AllDigits(w)

\* str::parse::<f64>() on the decimal forms: an optional sign, digits with an
\* optional point and at least one digit.  The value is kept as its text.
ParsesF64(w) ==
    LET body == IF Len(w) > 0 /\ CharAt(w, 1) \in {"+", "-"}
                THEN SubSeq(w, 2, Len(w)) ELSE w
        dots == { i \in 1..Len(body) : CharAt(body, i) = "." }
    IN  /\ Cardinality(dots) <= 1
        /\ \A i \in 1..Len(body) : CharAt(body, i) \in Digits \cup {"."}
        /\ \E i \in 1..Len(body) : CharAt(body, i) \in Digits

\* str::lines(): split on "\n", drop one trailing "\r" of each line, no
\* final empty line after a terminating "\n"
StrLines(s) ==
    LET nl == { i \in 1..Len(s) : CharAt(s, i) = "\n" }
        StripCr(l) == IF Len(l) > 0 /\ CharAt(l, Len(l)) = "\r"
                      THEN SubSeq(l, 1, Len(l) - 1) ELSE l
        RECURSIVE Cut(_)
        Cut(from) ==
            LET rest == { i \in nl : i >= from }
            IN  IF rest = {}
                THEN IF from > Len(s) THEN << >>
                     ELSE << StripCr(SubSeq(s, from, Len(s))) >>
                ELSE << StripCr(SubSeq(s, from, Min(rest) - 1)) >>
                     \o Cut(Min(rest) + 1)
    IN  Cut(1)

(***************************************************************************)
(* model/run.rs: RunOutput and the line parser                             *)
(***************************************************************************)
None == [some |-> FALSE, val |-> ""]

Some(v) == [some |-> TRUE, val |-> v]

RunOutputNew(command) ==
    [command |-> command, status |-> "Running", output |-> "",
     view_mode |-> "Graphical", model_runs |-> << >>]

extract_step(line) ==
    LET parts == SplitWhitespace(line)
        hits == { i \in 1..(Len(parts) - 2) :
                    /\ parts[i + 1] = "of"
                    /\ ParsesU32(parts[i])
                    /\ ParsesU32(parts[i + 2]) }
    IN  IF hits = {} THEN None
        ELSE Some(parts[Min(hits)] \o " of " \o parts[Min(hits) + 2])

extract_model_type(line) ==
    IF Contains(line, " view ") THEN "view"
    ELSE IF Contains(line, " table ") THEN "table"
    ELSE IF Contains(line, " incremental ") THEN "incremental"
    ELSE IF Contains(line, " seed ") THEN "seed"
    ELSE IF Contains(line, " test ") THEN "test"
    ELSE "model"

extract_model_name(line) ==
    LET model_pos == Find(line, " model ")
        after_model == SubSeq(line, model_pos + 7, Len(line))
        end_pos == IF Find(after_model, " ...") # 0 THEN Find(after_model, " ...")
                   ELSE IF Find(after_model, " [") # 0 THEN Find(after_model, " [")
                   ELSE Len(after_model) + 1
        name == Trim(SubSeq(after_model, 1, end_pos - 1))
    IN  IF model_pos = 0 THEN None
        ELSE IF name = "" THEN None
        ELSE Some(name)

\* parse_duration without strip_suffix('s')
parse_duration_keeps_suffix(str) ==
    IF ParsesF64(Trim(str)) THEN Some(Trim(str)) ELSE None

parse_duration(str) ==
    LET s == Trim(str)
        stripped == IF Len(s) > 0 /\ CharAt(s, Len(s)) = "s"
                    THEN SubSeq(s, 1, Len(s) - 1) ELSE s
    IN  IF ParsesF64(stripped) THEN Some(stripped) ELSE None

ModelRunNew(name, line) ==
    [name |-> name, model_type |-> extract_model_type(line),
     status |-> "Running", duration |-> None, result_info |-> None,
     step |-> extract_step(line), upstream_deps |-> << >>, layer |-> 0]

\* A start line parser that does not give up on a missing name
parse_start_line_unnamed(line) ==
    Some(ModelRunNew(extract_model_name(line).val, line))

parse_start_line(line) ==
    IF extract_model_name(line).some
    THEN Some(ModelRunNew(extract_model_name(line).val, line))
    ELSE None

IndexOfName(model_runs, name) ==
    LET hits == { i \in 1..Len(model_runs) : model_runs[i].name = name }
    IN  IF hits = {} THEN 0 ELSE Min(hits)

\* The slice &line[bracket_start + 1..bracket_end] panics when the last "["
\* lies after the last "]" (run.rs:279-281); it is reached only past the
\* early return on an empty name.
parse_completion_line_panics(line) ==
    /\ extract_model_name(line).some
    /\ RFind(line, "[") # 0
    /\ RFind(line, "]") # 0
    /\ RFind(line, "[") > RFind(line, "]")

parse_completion_line(line, model_runs) ==
    LET name == extract_model_name(line)
        found == IndexOfName(model_runs, name.val)
        runs1 == IF found = 0
                 THEN Append(model_runs, ModelRunNew(name.val, line))
                 ELSE model_runs
        k == IF found = 0 THEN Len(runs1) ELSE found
        status == IF Contains(line, " OK ") THEN "Success"
                  ELSE IF Contains(line, " ERROR ") THEN "Failed"
                  ELSE IF Contains(line, " SKIP ") THEN "Skipped"
                  ELSE runs1[k].status
        runs2 == [runs1 EXCEPT ![k].status = status]
        bracket_start == RFind(line, "[")
        bracket_end == RFind(line, "]")
        bracket_content == SubSeq(line, bracket_start + 1, bracket_end - 1)
        in_pos == RFind(bracket_content, " in ")
        duration == parse_duration(SubSeq(bracket_content, in_pos + 4,
                                          Len(bracket_content)))
    IN  IF ~name.some THEN model_runs
        ELSE IF bracket_start = 0 \/ bracket_end = 0 THEN runs2
        ELSE IF bracket_start > bracket_end THEN runs2
        ELSE IF in_pos # 0
        THEN [runs2 EXCEPT
                ![k].duration = IF duration.some THEN duration ELSE @,
                ![k].result_info = Some(SubSeq(bracket_content, 1, in_pos - 1))]
        ELSE [runs2 EXCEPT ![k].result_info = Some(bracket_content)]

IsStartLine(line) == Contains(line, " START ") /\ Contains(line, " model ")

\* The completion test without the SKIP token
IsCompletionLine_without_skip(line) ==
    /\ ~IsStartLine(line)
    /\ \/ Contains(line, " OK ")
       \/ Contains(line, " ERROR ")
    /\ Contains(line, " model ")

IsCompletionLine(line) ==
    /\ ~IsStartLine(line)
    /\ \/ Contains(line, " OK ")
       \/ Contains(line, " ERROR ")
       \/ Contains(line, " SKIP ")
    /\ Contains(line, " model ")

parse_output_line_panics(line) ==
    IsCompletionLine(line) /\ parse_completion_line_panics(line)

\* A start line that takes the model run of its name out of the table and
\* puts a new one at the end
parse_output_line_replace(ro, line) ==
    IF IsStartLine(line)
    THEN IF parse_start_line(line).some
         THEN [ro EXCEPT !.model_runs =
                 Append(SelectSeq(@, LAMBDA m :
                                       m.name # parse_start_line(line).val.name),
                        parse_start_line(line).val)]
         ELSE ro
    ELSE IF IsCompletionLine(line)
    THEN [ro EXCEPT !.model_runs = parse_completion_line(line, @)]
    ELSE ro

\* A start line that resets the model run of its name
parse_output_line_restart(ro, line) ==
    IF IsStartLine(line)
    THEN IF parse_start_line(line).some
         THEN IF IndexOfName(ro.model_runs, parse_start_line(line).val.name) = 0
              THEN [ro EXCEPT !.model_runs =
                                  Append(@, parse_start_line(line).val)]
              ELSE [ro EXCEPT !.model_runs[IndexOfName(ro.model_runs,
                                  parse_start_line(line).val.name)] =
                                      parse_start_line(line).val]
         ELSE ro
    ELSE IF IsCompletionLine(line)
    THEN [ro EXCEPT !.model_runs = parse_completion_line(line, @)]
    ELSE ro

\* A start line that always pushes its model run
parse_output_line_push(ro, line) ==
    IF IsStartLine(line)
    THEN IF parse_start_line(line).some
         THEN [ro EXCEPT !.model_runs = Append(@, parse_start_line(line).val)]
         ELSE ro
    ELSE IF IsCompletionLine(line)
    THEN [ro EXCEPT !.model_runs = parse_completion_line(line, @)]
    ELSE ro

parse_output_line(ro, line) ==
    IF IsStartLine(line)
    THEN IF /\ parse_start_line(line).some
            /\ IndexOfName(ro.model_runs, parse_start_line(line).val.name) = 0
         THEN [ro EXCEPT !.model_runs = Append(@, parse_start_line(line).val)]
         ELSE ro
    ELSE IF IsCompletionLine(line)
    THEN [ro EXCEPT !.model_runs = parse_completion_line(line, @)]
    ELSE ro

(***************************************************************************)
(* model/run.rs: compute_layers                                            *)
(***************************************************************************)
DisplayName(n) == n.schema \o "." \o n.name

\* HashMap collected from all_nodes: a later node replaces an earlier one
\* with the same display name.  0 stands for a missing key.
node_by_display_name(all_nodes, name) ==
    LET hits == { i \in 1..Len(all_nodes) : DisplayName(all_nodes[i]) = name }
    IN  IF hits = {} THEN 0 ELSE Max(hits)

\* all_nodes.iter().find(|n| &n.unique_id == dep_unique_id)
FindByUniqueId(all_nodes, id) ==
    LET hits == { i \in 1..Len(all_nodes) : all_nodes[i].unique_id = id }
    IN  IF hits = {} THEN 0 ELSE Min(hits)

run_model_names(model_runs) == { model_runs[i].name : i \in 1..Len(model_runs) }

\* The dependencies that resolve to a node, in the run or not
RECURSIVE FilterDeps_any_run(_, _, _)
FilterDeps_any_run(ids, all_nodes, names) ==
    IF ids = << >> THEN << >>
    ELSE LET k == FindByUniqueId(all_nodes, Head(ids))
             rest == FilterDeps_any_run(Tail(ids), all_nodes, names)
         IN  IF k # 0 THEN << DisplayName(all_nodes[k]) >> \o rest ELSE rest

RECURSIVE FilterDeps(_, _, _)
FilterDeps(ids, all_nodes, names) ==
    IF ids = << >> THEN << >>
    ELSE LET k == FindByUniqueId(all_nodes, Head(ids))
             rest == FilterDeps(Tail(ids), all_nodes, names)
         IN  IF k # 0 /\ DisplayName(all_nodes[k]) \in names
             THEN << DisplayName(all_nodes[k]) >> \o rest
             ELSE rest

deps_in_run(model_runs, all_nodes, name) ==
    LET k == node_by_display_name(all_nodes, name)
    IN  IF k = 0 THEN << >>
        ELSE FilterDeps(all_nodes[k].depends_on, all_nodes,
                        run_model_names(model_runs))

Range(q) == { q[i] : i \in 1..Len(q) }

\* The while loop of compute_layers; passes counts its iterations.
RECURSIVE AssignLayers(_, _, _, _, _)
AssignLayers(model_runs, all_nodes, model_layers, remaining, current_layer) ==
    LET assigned_this_layer ==
            { m \in remaining :
                \A dep \in Range(deps_in_run(model_runs, all_nodes, m)) :
                    dep \in DOMAIN model_layers.map }
    IN  IF remaining = {} THEN model_layers
        ELSE IF assigned_this_layer = {}
        THEN [map |-> [m \in remaining |-> current_layer] @@ model_layers.map,
              passes |-> model_layers.passes + 1]
        ELSE AssignLayers(model_runs, all_nodes,
                 [map |-> [m \in assigned_this_layer |-> current_layer]
                            @@ model_layers.map,
                  passes |-> model_layers.passes + 1],
                 remaining \ assigned_this_layer, current_layer + 1)

model_layers(model_runs, all_nodes) ==
    AssignLayers(model_runs, all_nodes, [map |-> << >>, passes |-> 0],
                 run_model_names(model_runs), 0)

compute_layers(ro, all_nodes) ==
    IF ro.model_runs = << >> THEN ro
    ELSE [ro EXCEPT !.model_runs =
            [i \in 1..Len(ro.model_runs) |->
                [ro.model_runs[i] EXCEPT
                   !.layer = model_layers(ro.model_runs, all_nodes)
                                 .map[ro.model_runs[i].name],
                   !.upstream_deps =
                       deps_in_run(ro.model_runs, all_nodes,
                                   ro.model_runs[i].name)]]]

\* A scan that finds every unit ready
all_deps_assigned_always(deps, layers) == TRUE

\* deps.iter().all(|dep| model_layers.contains_key(dep))
all_deps_assigned(deps, layers) ==
    \A dep \in Range(deps) : dep \in DOMAIN layers

\* The scan of one pass that also counts the names it has just pushed as
\* assigned
RECURSIVE assigned_in_order_inserting(_, _, _, _, _)
assigned_in_order_inserting(order, model_runs, all_nodes, layers, remaining) ==
    IF order = << >> THEN << >>
    ELSE LET model_name == Head(order)
             ready == /\ model_name \in remaining
                      /\ all_deps_assigned(
                             deps_in_run(model_runs, all_nodes, model_name),
                             layers)
         IN  IF ready
             THEN << model_name >> \o
                  assigned_in_order_inserting(Tail(order), model_runs,
                      all_nodes, (model_name :> 0) @@ layers, remaining)
             ELSE assigned_in_order_inserting(Tail(order), model_runs,
                      all_nodes, layers, remaining)

\* A scan that stops at the first unit it finds ready
RECURSIVE assigned_in_order_first(_, _, _, _, _)
assigned_in_order_first(order, model_runs, all_nodes, layers, remaining) ==
    IF order = << >> THEN << >>
    ELSE IF /\ Head(order) \in remaining
            /\ all_deps_assigned(
                   deps_in_run(model_runs, all_nodes, Head(order)), layers)
    THEN << Head(order) >>
    ELSE assigned_in_order_first(Tail(order), model_runs, all_nodes, layers,
                                 remaining)

\* run.rs:420-433: the Vec assigned_this_layer that one pass collects when
\* the HashSet remaining is iterated in the given order.  model_layers is
\* not written during the scan.
RECURSIVE assigned_in_order(_, _, _, _, _)
assigned_in_order(order, model_runs, all_nodes, layers, remaining) ==
    IF order = << >> THEN << >>
    ELSE LET model_name == Head(order)
             rest == assigned_in_order(Tail(order), model_runs, all_nodes,
                                       layers, remaining)
         IN  IF /\ model_name \in remaining
                /\ all_deps_assigned(
                       deps_in_run(model_runs, all_nodes, model_name), layers)
             THEN << model_name >> \o rest
             ELSE rest

\* The loop with current_layer advanced by two after each pass
RECURSIVE AssignLayersIn_skip_layer(_, _, _, _, _, _)
AssignLayersIn_skip_layer(order, model_runs, all_nodes, assigned, remaining, layer) ==
    LET assigned_this_layer ==
            Range(assigned_in_order(order, model_runs, all_nodes,
                                    assigned.map, remaining))
    IN  IF remaining = {} THEN assigned
        ELSE IF assigned_this_layer = {}
        THEN [map |-> [m \in remaining |-> layer] @@ assigned.map,
              passes |-> assigned.passes + 1]
        ELSE AssignLayersIn_skip_layer(order, model_runs, all_nodes,
                 [map |-> [m \in assigned_this_layer |-> layer]
                            @@ assigned.map,
                  passes |-> assigned.passes + 1],
                 remaining \ assigned_this_layer, layer + 2)

\* The loop with a cycle branch that gives the remaining units layer 0
RECURSIVE AssignLayersIn_flush_zero(_, _, _, _, _, _)
AssignLayersIn_flush_zero(order, model_runs, all_nodes, assigned, remaining, layer) ==
    LET assigned_this_layer ==
            Range(assigned_in_order(order, model_runs, all_nodes,
                                    assigned.map, remaining))
    IN  IF remaining = {} THEN assigned
        ELSE IF assigned_this_layer = {}
        THEN [map |-> [m \in remaining |-> 0] @@ assigned.map,
              passes |-> assigned.passes + 1]
        ELSE AssignLayersIn_flush_zero(order, model_runs, all_nodes,
                 [map |-> [m \in assigned_this_layer |-> layer]
                            @@ assigned.map,
                  passes |-> assigned.passes + 1],
                 remaining \ assigned_this_layer, layer + 1)

\* The loop as a do-while: the body runs once more when nothing remains
RECURSIVE AssignLayersIn_do_while(_, _, _, _, _, _)
AssignLayersIn_do_while(order, model_runs, all_nodes, assigned, remaining, layer) ==
    LET assigned_this_layer ==
            Range(assigned_in_order(order, model_runs, all_nodes,
                                    assigned.map, remaining))
    IN  IF assigned_this_layer = {}
        THEN [map |-> [m \in remaining |-> layer] @@ assigned.map,
              passes |-> assigned.passes + 1]
        ELSE AssignLayersIn_do_while(order, model_runs, all_nodes,
                 [map |-> [m \in assigned_this_layer |-> layer]
                            @@ assigned.map,
                  passes |-> assigned.passes + 1],
                 remaining \ assigned_this_layer, layer + 1)

\* run.rs:419-453: the while loop with the iteration order of remaining
\* made explicit; passes counts the times its body runs.
RECURSIVE AssignLayersIn(_, _, _, _, _, _)
AssignLayersIn(order, model_runs, all_nodes, assigned, remaining, current_layer) ==
    LET assigned_this_layer ==
            Range(assigned_in_order(order, model_runs, all_nodes,
                                    assigned.map, remaining))
    IN  IF remaining = {} THEN assigned
        ELSE IF assigned_this_layer = {}
        THEN [map |-> [m \in remaining |-> current_layer] @@ assigned.map,
              passes |-> assigned.passes + 1]
        ELSE AssignLayersIn(order, model_runs, all_nodes,
                 [map |-> [m \in assigned_this_layer |-> current_layer]
                            @@ assigned.map,
                  passes |-> assigned.passes + 1],
                 remaining \ assigned_this_layer, current_layer + 1)

\* The iteration orders a HashSet of these names can have
Orders(names) ==
    { order \in [1..Cardinality(names) -> names] : Range(order) = names }

model_layers_in(model_runs, all_nodes, order) ==
    IF model_runs = << >> THEN [map |-> << >>, passes |-> 0]
    ELSE AssignLayersIn(order, model_runs, all_nodes,
                        [map |-> << >>, passes |-> 0],
                        run_model_names(model_runs), 0)

\* run.rs:372-464 with remaining iterated in the given order
compute_layers_in(ro, all_nodes, order) ==
    IF ro.model_runs = << >> THEN ro
    ELSE [ro EXCEPT !.model_runs =
            [i \in 1..Len(ro.model_runs) |->
                [ro.model_runs[i] EXCEPT
                   !.layer = model_layers_in(ro.model_runs, all_nodes, order)
                                 .map[ro.model_runs[i].name],
                   !.upstream_deps =
                       deps_in_run(ro.model_runs, all_nodes,
                                   ro.model_runs[i].name)]]]

\* run.rs:351-367: the model runs of each layer, in the order of the table;
\* element l + 1 of the result is layer l
get_models_by_layer(ro) ==
    IF ro.model_runs = << >> THEN << >>
    ELSE LET max_layer == Max({ ro.model_runs[i].layer :
                                  i \in 1..Len(ro.model_runs) })
         IN  [ l \in 1..(max_layer + 1) |->
                 SelectSeq(ro.model_runs, LAMBDA model : model.layer = l - 1) ]

(***************************************************************************)
(* model/lineage.rs: LineageNode and LineageGraph                          *)
(*                                                                         *)
(* A HashMap is a function whose DOMAIN is the set of its keys.            *)
(***************************************************************************)
\* str::split('.'): the pieces between the dots, empty ones included
RECURSIVE SplitDot(_)
SplitDot(s) ==
    IF Find(s, ".") = 0 THEN << s >>
    ELSE << SubSeq(s, 1, Find(s, ".") - 1) >>
         \o SplitDot(SubSeq(s, Find(s, ".") + 1, Len(s)))

\* [&str]::join(".")
RECURSIVE JoinDot(_)
JoinDot(parts) ==
    IF parts = << >> THEN ""
    ELSE IF Len(parts) = 1 THEN parts[1]
    ELSE parts[1] \o "." \o JoinDot(Tail(parts))

from_node(node) ==
    [name |-> node.name, resource_type |-> node.resource_type]

from_unique_id(unique_id) ==
    LET parts == SplitDot(unique_id)
    IN  IF Len(parts) >= 3
        THEN [name |-> IF parts[1] = "source" /\ Len(parts) >= 4
                       THEN parts[4]
                       ELSE JoinDot(SubSeq(parts, 3, Len(parts))),
              resource_type |-> parts[1]]
        ELSE [name |-> unique_id, resource_type |-> "unknown"]

\* First pass of build: insert replaces the list of an earlier node of the
\* same unique_id
upstream_of_nodes(nodes_) ==
    [ id \in { nodes_[i].unique_id : i \in DOMAIN nodes_ } |->
        LET node == nodes_[Max({ i \in DOMAIN nodes_ :
                                    nodes_[i].unique_id = id })]
        IN  [ k \in DOMAIN node.depends_on |->
                from_unique_id(node.depends_on[k]) ] ]

\* Second pass of build: the nodes that name dep_id, once for each time
\* they name it, in the order of the list
RECURSIVE dependents_of(_, _)
dependents_of(nodes_, dep_id) ==
    IF nodes_ = << >> THEN << >>
    ELSE [ k \in 1..Cardinality({ j \in DOMAIN Head(nodes_).depends_on :
                                     Head(nodes_).depends_on[j] = dep_id }) |->
             from_node(Head(nodes_)) ]
         \o dependents_of(Tail(nodes_), dep_id)

build(nodes_) ==
    [upstream |-> upstream_of_nodes(nodes_),
     downstream |->
       [ dep_id \in UNION { Range(nodes_[i].depends_on) : i \in DOMAIN nodes_ } |->
           dependents_of(nodes_, dep_id) ]]

\* A query that answers for an absent identifier with a placeholder entry
get_upstream_placeholder(graph, unique_id) ==
    IF unique_id \in DOMAIN graph.upstream THEN graph.upstream[unique_id]
    ELSE << from_unique_id(unique_id) >>

get_upstream(graph, unique_id) ==
    IF unique_id \in DOMAIN graph.upstream THEN graph.upstream[unique_id]
    ELSE << >>

get_downstream(graph, unique_id) ==
    IF unique_id \in DOMAIN graph.downstream THEN graph.downstream[unique_id]
    ELSE << >>

(***************************************************************************)
(* services/job_runner.rs: messages, strip_ansi_codes, poll                *)
(***************************************************************************)
NoCode == [some |-> FALSE, val |-> 0]

SomeCode(c) == [some |-> TRUE, val |-> c]

Output(line) == [type |-> "Output", text |-> line, code |-> NoCode]

Completed(exit_code) == [type |-> "Completed", text |-> "", code |-> exit_code]

Error(err) == [type |-> "Error", text |-> err, code |-> NoCode]

ESC == "^"

\* End of the match of \x1b\[[0-9;]*[a-zA-Z] that starts at i, or 0.  The
\* classes [0-9;] and [a-zA-Z] are disjoint, so the greedy star never has to
\* give a character back.
AnsiMatchEnd(s, i) ==
    LET stops == { j \in (i + 2)..Len(s) : CharAt(s, j) \notin Digits \cup {";"} }
    IN  IF /\ i + 1 <= Len(s)
           /\ CharAt(s, i) = ESC
           /\ CharAt(s, i + 1) = "["
           /\ stops # {}
           /\ CharAt(s, Min(stops)) \in Letters
        THEN Min(stops) ELSE 0

RECURSIVE StripFrom(_, _)
StripFrom(s, i) ==
    IF i > Len(s) THEN ""
    ELSE IF AnsiMatchEnd(s, i) # 0 THEN StripFrom(s, AnsiMatchEnd(s, i) + 1)
    ELSE CharAt(s, i) \o StripFrom(s, i + 1)

strip_ansi_codes(s) == StripFrom(s, 1)

\* poll with exit_code.unwrap_or(0) == 0 for exit_code == Some(0)
poll_message_unwrap_or(ro, msg) ==
    IF msg.type = "Output"
    THEN parse_output_line(
             [ro EXCEPT !.output = @ \o strip_ansi_codes(msg.text) \o "\n"],
             strip_ansi_codes(msg.text))
    ELSE IF msg.type = "Completed"
    THEN [ro EXCEPT !.status = IF msg.code.val = 0
                               THEN "Success" ELSE "Failed"]
    ELSE [ro EXCEPT !.output = @ \o "\nError: " \o msg.text \o "\n",
                    !.status = "Failed"]

\* poll pushing the line as received and parsing the clean line
poll_message_push_raw(ro, msg) ==
    IF msg.type = "Output"
    THEN parse_output_line(
             [ro EXCEPT !.output = @ \o msg.text \o "\n"],
             strip_ansi_codes(msg.text))
    ELSE IF msg.type = "Completed"
    THEN [ro EXCEPT !.status = IF msg.code = SomeCode(0)
                               THEN "Success" ELSE "Failed"]
    ELSE [ro EXCEPT !.output = @ \o "\nError: " \o msg.text \o "\n",
                    !.status = "Failed"]

\* One iteration of the loop of poll that received msg (job_runner.rs:73-93)
poll_message(ro, msg) ==
    IF msg.type = "Output"
    THEN parse_output_line(
             [ro EXCEPT !.output = @ \o strip_ansi_codes(msg.text) \o "\n"],
             strip_ansi_codes(msg.text))
    ELSE IF msg.type = "Completed"
    THEN [ro EXCEPT !.status = IF msg.code = SomeCode(0)
                               THEN "Success" ELSE "Failed"]
    ELSE [ro EXCEPT !.output = @ \o "\nError: " \o msg.text \o "\n",
                    !.status = "Failed"]

poll_message_panics(msg) ==
    msg.type = "Output" /\ parse_output_line_panics(strip_ansi_codes(msg.text))

\* Disconnected without the test on Running
poll_disconnected_always(ro) == [ro EXCEPT !.status = "Failed"]

\* Err(TryRecvError::Disconnected) (job_runner.rs:95-100)
poll_disconnected(ro) ==
    IF ro.status = "Running" THEN [ro EXCEPT !.status = "Failed"] ELSE ro

\* A poll that takes a missing job for a disconnected one
poll_return_no_job_fails(ro, result) ==
    IF result \in { "NoJob", "Disconnected" } THEN poll_disconnected(ro) ELSE ro

\* What poll leaves in the execution when it returns: at once when there is
\* no job (job_runner.rs:65-67), or from the loop at Empty or Disconnected
poll_return(ro, result) ==
    IF result = "Disconnected" THEN poll_disconnected(ro) ELSE ro

(***************************************************************************)
(* State                                                                   *)
(*                                                                         *)
(* An Option is a sequence of length at most one.  A job is named by the   *)
(* number of its spawn; 0 stands for JobRunner.job = None.                 *)
(***************************************************************************)
VARIABLES
    modals,              \* App.modals, bottom first
    history_dialog,      \* App.history_dialog.selected_index
    run_output,          \* App.domain.run_output
    job_runner,          \* App.job_runner.job
    sample_data_output,  \* App.domain.sample_data_output
    sample_data_runner,  \* App.sample_data_runner.job
    run_history,         \* App.domain.run_history
    ui,                  \* position of the UI thread inside Action::Tick
    threads,             \* the background thread of each spawned command
    chan,                \* the mpsc queue of each spawned command
    rx,                  \* whether the Receiver of each command still exists
    nrun,                \* number of commands spawned on job_runner
    nsample,             \* number of commands spawned on sample_data_runner
    sent,                \* history: messages enqueued on each attached channel
    recvd,               \* history: messages try_recv returned from it
    owner,               \* history: job whose spawn returned run_output
    sowner,              \* history: job whose spawn made sample_data_output
    po,                  \* parser harness: the RunOutput under test
    fed,                 \* parser harness: the lines fed so far
    panicked,            \* parser harness: a line made the parser panic
    nodes,               \* layering harness: the all_nodes of the calls
    calls,               \* layering harness: calls of compute_layers so far
    passes,              \* layering harness: while-loop passes of the last call
    lineage_graph        \* App.domain.lineage_graph

vars == << modals, history_dialog, run_output, job_runner, sample_data_output,
           sample_data_runner, run_history, ui, threads, chan, rx, nrun, nsample,
           sent, recvd, owner, sowner, po, fed, panicked, nodes, calls,
           passes, lineage_graph >>

appVars == << modals, history_dialog, run_output, job_runner,
              sample_data_output, sample_data_runner, run_history, ui,
              threads, chan, rx, nrun, nsample, sent, recvd, owner, sowner >>

harnessVars == << po, fed, panicked, nodes, calls, passes, lineage_graph >>

Jobs == 1..(MaxRunJobs + MaxSampleJobs)

njobs == nrun + nsample

(***************************************************************************)
(* Inputs                                                                  *)
(***************************************************************************)
\* The project (domain.all_nodes): s.b depends on s.a
AllNodes ==
    << [unique_id |-> "model.p.a", schema |-> "s", name |-> "a",
        resource_type |-> "model", depends_on |-> << >>],
       [unique_id |-> "model.p.b", schema |-> "s", name |-> "b",
        resource_type |-> "model", depends_on |-> << "model.p.a" >>] >>

LineStartB == "2 of 2 START sql table model s.b ... [RUN]"

LineOkA == "1 of 2 OK created sql view model s.a ... [^[32mOK^[0m in 0.1s]"

LineDone == "Done. PASS=1 WARN=0 ERROR=0 SKIP=0 TOTAL=1"

LineErrB == "2 of 2 ERROR creating sql table model s.b ... [ERROR in 0.2s]"

\* What the child of a command prints on stdout, line by line; it may stop
\* after any of them
ChildOutput(command) ==
    IF command = "dbt show"
    THEN << "| id | name |", "| -- | ---- |", "| 1 | ^[1mx^[0m |", "| 2 | y |" >>
    ELSE << LineStartB, LineOkA, LineErrB, LineDone >>

\* Outcomes of child.wait().ok().and_then(|s| s.code())
ExitCodes == { SomeCode(0), SomeCode(1), NoCode }

SpawnErrors == { "No such file or directory (os error 2)" }

\* Contents of ~/.dbt-tui/history.json found by RunHistory::load
EntryDone ==
    [command |-> "dbt run", status |-> "Success",
     output |-> "1 of 2 OK created sql view model s.a ... [OK in 0.1s]\n"]

EntryRunning ==
    [command |-> "dbt run", status |-> "Running",
     output |-> "2 of 2 START sql table model s.b ... [RUN]\n"]

InitHistories == { << >>, << EntryDone >>, << EntryRunning >> }

HistoryCap == 100

(***************************************************************************)
(* The background thread: JobRunner::run_command                           *)
(***************************************************************************)
ThreadNew(command) ==
    [pc |-> "spawn", command |-> command, failure |-> "none"]

ThreadUnborn == [pc |-> "unborn", command |-> "", failure |-> "none"]

\* tx.send(msg): enqueues unless the receiver is gone, then it is an Err
\* that run_command either ignores or turns into a break
Send(j, msg) ==
    IF rx[j]
    THEN /\ chan' = [chan EXCEPT ![j] = Append(@, msg)]
         /\ sent' = [sent EXCEPT ![j] = Append(@, msg)]
    ELSE UNCHANGED << chan, sent >>

uiAndApp == << modals, history_dialog, run_output, job_runner,
               sample_data_output, sample_data_runner, run_history, ui, rx,
               nrun, nsample, recvd, owner, sowner >>

\* Command::new("sh").spawn() is Ok
RunCommandSpawnOk(j) ==
    /\ threads[j].pc = "spawn"
    /\ threads' = [threads EXCEPT ![j].pc = "read"]
    /\ UNCHANGED << chan, sent, uiAndApp, harnessVars >>

\* Command::new("sh").spawn() is Err(e)
RunCommandSpawnErr(j) ==
    /\ threads[j].pc = "spawn"
    /\ \E e \in SpawnErrors : Send(j, Error(e))
    /\ threads' = [threads EXCEPT ![j].pc = "done", ![j].failure = "spawn"]
    /\ UNCHANGED << uiAndApp, harnessVars >>

\* reader.lines() yields Ok(line); a failed send breaks out of the loop.
\* A child prints at most MaxLines lines to an attached reader.
RunCommandReadLine(j) ==
    /\ threads[j].pc = "read"
    /\ Len(sent[j]) < MaxLines
    /\ Len(sent[j]) < Len(ChildOutput(threads[j].command))
    /\ Send(j, Output(ChildOutput(threads[j].command)[Len(sent[j]) + 1]))
    /\ threads' = [threads EXCEPT ![j].pc = IF rx[j] THEN "read" ELSE "wait"]
    /\ UNCHANGED << uiAndApp, harnessVars >>

\* reader.lines() yields None (end of stdout) or Err (map_while stops)
RunCommandReadEnd(j) ==
    /\ threads[j].pc = "read"
    /\ \E failure \in { "none", "read" } :
         threads' = [threads EXCEPT ![j].pc = "wait", ![j].failure = failure]
    /\ UNCHANGED << chan, sent, uiAndApp, harnessVars >>

\* A thread that ends after child.wait() without sending anything
RunCommandWait_silent(j) ==
    /\ threads[j].pc = "wait"
    /\ threads' = [threads EXCEPT ![j].pc = "done"]
    /\ UNCHANGED << chan, sent, uiAndApp, harnessVars >>

\* child.wait() returns and Completed(exit_code) is sent
RunCommandWait(j) ==
    /\ threads[j].pc = "wait"
    /\ \E exit_code \in ExitCodes : Send(j, Completed(exit_code))
    /\ threads' = [threads EXCEPT ![j].pc = "done"]
    /\ UNCHANGED << uiAndApp, harnessVars >>

(***************************************************************************)
(* JobRunner: spawn, clear, try_recv                                       *)
(***************************************************************************)
\* A BackgroundJob that is leaked instead of dropped
DropReceiver_leak(f, j, empty) == f

\* Dropping a BackgroundJob drops its Receiver and the messages queued in it
DropReceiver(f, j, empty) == IF j = 0 THEN f ELSE [f EXCEPT ![j] = empty]

\* JobRunner::spawn on the runner whose job was old: the new thread and
\* channel, and the old job replaced
JobRunnerSpawn(old, command) ==
    /\ threads' = [threads EXCEPT ![njobs + 1] = ThreadNew(command)]
    /\ rx' = [DropReceiver(rx, old, FALSE) EXCEPT ![njobs + 1] = TRUE]
    /\ chan' = DropReceiver(chan, old, << >>)
    /\ sent' = DropReceiver(sent, old, << >>)
    /\ recvd' = DropReceiver(recvd, old, << >>)

\* JobRunner::clear on the runner whose job was old
JobRunnerClear(old) ==
    /\ rx' = DropReceiver(rx, old, FALSE)
    /\ chan' = DropReceiver(chan, old, << >>)
    /\ sent' = DropReceiver(sent, old, << >>)
    /\ recvd' = DropReceiver(recvd, old, << >>)

\* job.receiver.try_recv()
try_recv(j) ==
    IF chan[j] # << >> THEN "Ok"
    ELSE IF threads[j].pc = "done" THEN "Disconnected"
    ELSE "Empty"

\* A loop that goes on at Empty, as with a blocking recv
poll_breaks_on_disconnect(result) == result = "Disconnected"

\* The results of try_recv at which the loop of poll is left
poll_breaks(result) == result \in { "Empty", "Disconnected" }

(***************************************************************************)
(* app.rs: Action::Tick, one step per try_recv                             *)
(***************************************************************************)
Idle == [pc |-> "idle", had_updates |-> FALSE, temp |-> << >>]

\* app.rs:416-424: the sample-data half of Tick starts with a temporary
\* RunOutput that carries the raw output and status of the sample output
SampleStage ==
    IF sample_data_output # << >> /\ sample_data_output[1].status = "Running"
    THEN [pc |-> "poll_sample", had_updates |-> FALSE,
          temp |-> << [RunOutputNew("") EXCEPT
                         !.output = sample_data_output[1].raw_output,
                         !.status = sample_data_output[1].status] >>]
    ELSE Idle

Tick ==
    /\ ui.pc = "idle"
    /\ ui' = IF run_output # << >>
             THEN [pc |-> "poll_run", had_updates |-> FALSE, temp |-> << >>]
             ELSE SampleStage
    /\ UNCHANGED << modals, history_dialog, run_output, job_runner,
                    sample_data_output, sample_data_runner, run_history,
                    threads, chan, rx, nrun, nsample, sent, recvd, owner, sowner, harnessVars >>

\* try_recv on the job of the primary runner returns Ok(msg): msg leaves the
\* channel
RunTryRecvOk ==
    /\ ui.pc = "poll_run"
    /\ job_runner # 0
    /\ try_recv(job_runner) = "Ok"
    /\ chan' = [chan EXCEPT ![job_runner] = Tail(@)]
    /\ recvd' = [recvd EXCEPT ![job_runner] = Append(@, Head(chan[job_runner]))]

\* job_runner.poll(run_output): try_recv returned Ok(msg)
PollRunRecv ==
    /\ RunTryRecvOk
    /\ IF poll_message_panics(Head(chan[job_runner]))
       THEN /\ ui' = [ui EXCEPT !.pc = "panicked"]
            /\ UNCHANGED run_output
       ELSE /\ ui' = [ui EXCEPT !.had_updates = TRUE]
            /\ run_output' = << poll_message(run_output[1],
                                             Head(chan[job_runner])) >>
    /\ UNCHANGED << modals, history_dialog, job_runner, sample_data_output,
                    sample_data_runner, run_history, threads, rx, nrun, nsample,
                    sent, owner, sowner, harnessVars >>

\* job_runner.poll(run_output) returns: no job, Empty or Disconnected
PollRunEnd ==
    /\ ui.pc = "poll_run"
    /\ IF job_runner = 0 THEN TRUE
       ELSE poll_breaks(try_recv(job_runner))
    /\ run_output' =
         << poll_return(run_output[1], IF job_runner = 0 THEN "NoJob"
                                       ELSE try_recv(job_runner)) >>
    /\ ui' = [ui EXCEPT !.pc = "layers"]
    /\ UNCHANGED << modals, history_dialog, job_runner, sample_data_output,
                    sample_data_runner, run_history, threads, chan, rx,
                    nrun, nsample, sent, recvd, owner, sowner,
                    harnessVars >>

\* The UI thread goes on from the primary poll to the sample half of Tick
LayersDone ==
    /\ ui.pc = "layers"
    /\ ui' = SampleStage

\* run_output.compute_layers(&self.domain.all_nodes), then the sample half
TickComputeLayers ==
    /\ LayersDone
    /\ run_output' = << compute_layers(run_output[1], AllNodes) >>
    /\ UNCHANGED << modals, history_dialog, job_runner, sample_data_output,
                    sample_data_runner, run_history, threads, chan, rx,
                    nrun, nsample, sent, recvd, owner, sowner,
                    harnessVars >>

\* try_recv on the job of the sample runner returns Ok(msg)
SampleTryRecvOk ==
    /\ ui.pc = "poll_sample"
    /\ sample_data_runner # 0
    /\ try_recv(sample_data_runner) = "Ok"
    /\ chan' = [chan EXCEPT ![sample_data_runner] = Tail(@)]
    /\ recvd' = [recvd EXCEPT ![sample_data_runner] =
                   Append(@, Head(chan[sample_data_runner]))]

\* sample_data_runner.poll(&mut temp_output): try_recv returned Ok(msg)
PollSampleRecv ==
    /\ SampleTryRecvOk
    /\ IF poll_message_panics(Head(chan[sample_data_runner]))
       THEN ui' = [ui EXCEPT !.pc = "panicked"]
       ELSE ui' = [ui EXCEPT
                     !.had_updates = TRUE,
                     !.temp = << poll_message(ui.temp[1],
                                     Head(chan[sample_data_runner])) >>]
    /\ UNCHANGED << modals, history_dialog, run_output, job_runner,
                    sample_data_output, sample_data_runner, run_history,
                    threads, rx, nrun, nsample, sent, owner, sowner, harnessVars >>

\* sample_data_runner.poll returns and the results are copied back
\* (app.rs:426-428); parse_output only fills the table shown to the user
PollSampleEnd ==
    /\ ui.pc = "poll_sample"
    /\ IF sample_data_runner = 0 THEN TRUE
       ELSE poll_breaks(try_recv(sample_data_runner))
    /\ LET temp == poll_return(ui.temp[1],
                               IF sample_data_runner = 0 THEN "NoJob"
                               ELSE try_recv(sample_data_runner))
       IN  sample_data_output' =
             << [sample_data_output[1] EXCEPT !.raw_output = temp.output,
                                              !.status = temp.status] >>
    /\ ui' = Idle
    /\ UNCHANGED << modals, history_dialog, run_output, job_runner,
                    sample_data_runner, run_history, threads, chan, rx,
                    nrun, nsample, sent, recvd, owner, sowner,
                    harnessVars >>

(***************************************************************************)
(* app.rs: the actions behind the keys                                     *)
(***************************************************************************)
Top == IF modals = << >> THEN "Home" ELSE modals[Len(modals)]

Pop(q) == IF q = << >> THEN q ELSE SubSeq(q, 1, Len(q) - 1)

\* home.rs:434: r or Enter on the home screen
OpenRunOptions ==
    /\ ui.pc = "idle"
    /\ Top = "Home"
    /\ modals' = Append(modals, "RunOptions")
    /\ UNCHANGED << history_dialog, run_output, job_runner,
                    sample_data_output, sample_data_runner, run_history, ui,
                    threads, chan, rx, nrun, nsample, sent, recvd, owner, sowner, harnessVars >>

\* The tail of execute_dbt_command (app.rs:338-342)
SpawnRun(stack, command) ==
    /\ nrun < MaxRunJobs
    /\ nrun' = nrun + 1
    /\ UNCHANGED nsample
    /\ JobRunnerSpawn(job_runner, command)
    /\ job_runner' = njobs + 1
    /\ run_output' = << RunOutputNew(command) >>
    /\ owner' = njobs + 1
    /\ modals' = Append(stack, "RunOutput")
    /\ UNCHANGED << history_dialog, sample_data_output, sample_data_runner,
                    run_history, ui, sowner, harnessVars >>

\* Action::ConfirmModal on the run options: execute_dbt_command, which
\* returns early without a project path or a selected node
ConfirmModal ==
    /\ ui.pc = "idle"
    /\ Top = "RunOptions"
    /\ \/ SpawnRun(Pop(modals), "dbt run")
       \/ /\ modals' = Pop(modals)
          /\ UNCHANGED << history_dialog, run_output, job_runner,
                          sample_data_output, sample_data_runner,
                          run_history, ui, threads, chan, rx, nrun, nsample, sent,
                          recvd, owner, sowner, harnessVars >>

\* Action::OpenHistory: h on the home screen or in the run output view
OpenHistory ==
    /\ ui.pc = "idle"
    /\ Top \in { "Home", "RunOutput" }
    /\ Len(modals) < MaxModals
    /\ history_dialog' = 0
    /\ modals' = Append(modals, "History")
    /\ UNCHANGED << run_output, job_runner, sample_data_output,
                    sample_data_runner, run_history, ui, threads, chan, rx,
                    nrun, nsample, sent, recvd, owner, sowner,
                    harnessVars >>

ModalUp ==
    /\ ui.pc = "idle"
    /\ Top = "History"
    /\ history_dialog > 0
    /\ history_dialog' = history_dialog - 1
    /\ UNCHANGED << modals, run_output, job_runner, sample_data_output,
                    sample_data_runner, run_history, ui, threads, chan, rx,
                    nrun, nsample, sent, recvd, owner, sowner,
                    harnessVars >>

ModalDown ==
    /\ ui.pc = "idle"
    /\ Top = "History"
    /\ history_dialog + 1 < Len(run_history)
    /\ history_dialog' = history_dialog + 1
    /\ UNCHANGED << modals, run_output, job_runner, sample_data_output,
                    sample_data_runner, run_history, ui, threads, chan, rx,
                    nrun, nsample, sent, recvd, owner, sowner,
                    harnessVars >>

RECURSIVE FeedLines(_, _)
FeedLines(ro, lines) ==
    IF lines = << >> THEN ro
    ELSE FeedLines(parse_output_line(ro, Head(lines)), Tail(lines))

\* OpenRunOutput without the call of compute_layers
Rehydrate_without_layers(entry) ==
    FeedLines([RunOutputNew(entry.command) EXCEPT
                 !.status = entry.status, !.output = entry.output],
              StrLines(entry.output))

\* app.rs:540-548: a RunOutput rebuilt from a history entry
Rehydrate(entry) ==
    compute_layers(
        FeedLines([RunOutputNew(entry.command) EXCEPT
                     !.status = entry.status, !.output = entry.output],
                  StrLines(entry.output)),
        AllNodes)

RehydratePanics(entry) ==
    \E i \in 1..Len(StrLines(entry.output)) :
        parse_output_line_panics(StrLines(entry.output)[i])

\* Action::OpenRunOutput: Enter in the history dialog
OpenRunOutput ==
    /\ ui.pc = "idle"
    /\ Top = "History"
    /\ history_dialog < Len(run_history)
    /\ IF RehydratePanics(run_history[history_dialog + 1])
       THEN /\ ui' = [ui EXCEPT !.pc = "panicked"]
            /\ UNCHANGED << run_output, modals, owner >>
       ELSE /\ run_output' = << Rehydrate(run_history[history_dialog + 1]) >>
            /\ owner' = 0
            /\ modals' = Append(Pop(modals), "RunOutput")
            /\ UNCHANGED ui
    /\ UNCHANGED << history_dialog, job_runner, sample_data_output,
                    sample_data_runner, run_history, threads, chan, rx,
                    nrun, nsample, sent, recvd, sowner, harnessVars >>

\* App::save_to_history (the timestamp and the duration are not modelled)
save_to_history(history, output) ==
    IF output # << >> /\ output[1].status # "Running"
    THEN LET inserted == << [command |-> output[1].command,
                             status |-> output[1].status,
                             output |-> output[1].output] >> \o history
         IN  IF Len(inserted) > HistoryCap
             THEN SubSeq(inserted, 1, HistoryCap) ELSE inserted
    ELSE history

\* Action::CloseModal
CloseModal ==
    /\ ui.pc = "idle"
    /\ Top # "Home"
    /\ Top = "RunOutput" =>
           Len(save_to_history(run_history, run_output)) <= MaxHistory
    /\ IF Top = "RunOutput"
       THEN /\ run_history' = save_to_history(run_history, run_output)
            /\ run_output' = << >>
            /\ owner' = 0
            /\ JobRunnerClear(job_runner)
            /\ job_runner' = 0
            /\ UNCHANGED << sample_data_output, sample_data_runner, sowner >>
       ELSE IF Top = "SampleData"
       THEN /\ sample_data_output' = << >>
            /\ sowner' = 0
            /\ JobRunnerClear(sample_data_runner)
            /\ sample_data_runner' = 0
            /\ UNCHANGED << run_history, run_output, owner, job_runner >>
       ELSE UNCHANGED << run_history, run_output, owner, job_runner,
                         sample_data_output, sample_data_runner, sowner,
                         rx, chan, sent, recvd >>
    /\ modals' = Pop(modals)
    /\ UNCHANGED << history_dialog, ui, threads, nrun, nsample,
                    harnessVars >>

SampleDataOutputNew == [status |-> "Running", raw_output |-> ""]

\* OpenSampleData spawning on the primary runner
OpenSampleData_on_job_runner ==
    /\ ui.pc = "idle"
    /\ Top = "Home"
    /\ nsample < MaxSampleJobs
    /\ nsample' = nsample + 1
    /\ UNCHANGED nrun
    /\ JobRunnerSpawn(job_runner, "dbt show")
    /\ job_runner' = njobs + 1
    /\ sample_data_output' = << SampleDataOutputNew >>
    /\ sowner' = njobs + 1
    /\ modals' = Append(modals, "SampleData")
    /\ UNCHANGED << history_dialog, run_output, sample_data_runner,
                    run_history, ui, owner, harnessVars >>

\* Action::OpenSampleData: p on the home screen with a model selected
OpenSampleData ==
    /\ ui.pc = "idle"
    /\ Top = "Home"
    /\ nsample < MaxSampleJobs
    /\ nsample' = nsample + 1
    /\ UNCHANGED nrun
    /\ JobRunnerSpawn(sample_data_runner, "dbt show")
    /\ sample_data_runner' = njobs + 1
    /\ sample_data_output' = << SampleDataOutputNew >>
    /\ sowner' = njobs + 1
    /\ modals' = Append(modals, "SampleData")
    /\ UNCHANGED << history_dialog, run_output, job_runner, run_history, ui,
                    owner, harnessVars >>

(***************************************************************************)
(* The application with its background threads                             *)
(***************************************************************************)
InitApp ==
    /\ modals = << >>
    /\ history_dialog = 0
    /\ run_output = << >>
    /\ job_runner = 0
    /\ sample_data_output = << >>
    /\ sample_data_runner = 0
    /\ run_history \in InitHistories
    /\ ui = Idle
    /\ threads = [j \in Jobs |-> ThreadUnborn]
    /\ chan = [j \in Jobs |-> << >>]
    /\ rx = [j \in Jobs |-> FALSE]
    /\ nrun = 0
    /\ nsample = 0
    /\ sent = [j \in Jobs |-> << >>]
    /\ recvd = [j \in Jobs |-> << >>]
    /\ owner = 0
    /\ sowner = 0

Init ==
    /\ InitApp
    /\ po = RunOutputNew("dbt run")
    /\ fed = << >>
    /\ panicked = FALSE
    /\ nodes = AllNodes
    /\ calls = 0
    /\ passes = 0
    /\ lineage_graph = << build(AllNodes) >>

Next ==
    \/ Tick
    \/ PollRunRecv
    \/ PollRunEnd
    \/ TickComputeLayers
    \/ PollSampleRecv
    \/ PollSampleEnd
    \/ OpenRunOptions
    \/ ConfirmModal
    \/ OpenHistory
    \/ ModalUp
    \/ ModalDown
    \/ OpenRunOutput
    \/ CloseModal
    \/ OpenSampleData
    \/ \E j \in Jobs : RunCommandSpawnOk(j)
    \/ \E j \in Jobs : RunCommandSpawnErr(j)
    \/ \E j \in Jobs : RunCommandReadLine(j)
    \/ \E j \in Jobs : RunCommandReadEnd(j)
    \/ \E j \in Jobs : RunCommandWait(j)

Spec == Init /\ [][Next]_vars

(***************************************************************************)
(* The line parser on its own: any lines, in any order                     *)
(***************************************************************************)
LineStartA == "1 of 2 START sql view model s.a ... [RUN]"

LineOkAClean == "1 of 2 OK created sql view model s.a ... [OK in 0.1s]"

LineSkipB == "2 of 2 SKIP relation s.b model s.b ... [SKIP]"

LineNoName == "1 of 2 OK created sql view model  ... [OK in 0.1s]"

LineBadBrackets == "1 of 2 OK created sql view model s.c ]..["

LineStartCustomers ==
    "1 of 1 START sql view model staging.stg_customers ... [RUN]"

LineOkCustomers ==
    "1 of 1 OK created sql view model staging.stg_customers ... " \o
    "[view model staging.stg_customers in 0.42s]"

LineStartNoName == "1 of 2 START sql view model  ... [RUN]"

LineOkNoModel == "1 of 2 OK created sql view s.a ... [OK in 0.1s]"

ParseLines ==
    { LineStartA, LineOkAClean, LineStartB, LineErrB, LineSkipB, LineDone,
      LineNoName, LineBadBrackets, LineStartCustomers, LineOkCustomers,
      LineStartNoName, LineOkNoModel }

InitParse ==
    /\ Init
    /\ run_history = << >>

FeedLine ==
    /\ ~panicked
    /\ Len(fed) < MaxFeed
    /\ \E line \in ParseLines :
         /\ fed' = Append(fed, line)
         /\ IF parse_output_line_panics(line)
            THEN panicked' = TRUE /\ UNCHANGED po
            ELSE po' = parse_output_line(po, line) /\ UNCHANGED panicked
    /\ UNCHANGED << appVars, nodes, calls, passes, lineage_graph >>

NextParse == FeedLine

SpecParse == InitParse /\ [][NextParse]_vars

(***************************************************************************)
(* compute_layers on its own: any project, any unit table                  *)
(***************************************************************************)
NodeNew(name, depends_on) ==
    [unique_id |-> "model.p." \o name, schema |-> "s", name |-> name,
     resource_type |-> "model", depends_on |-> depends_on]

\* depends_on.nodes of a node: nothing, one or two nodes of the project
\* (itself included), or an identifier the project does not have
DepChoices ==
    { << >>, << "model.p.a" >>, << "model.p.b" >>, << "model.p.c" >>,
      << "model.p.a", "model.p.b" >>, << "model.p.zz" >> }

\* Two nodes display as s.a: the HashMap keeps the later one, which depends
\* on s.b, while find by unique_id returns each by its own identifier
ProjectTwins ==
    << NodeNew("a", << >>), NodeNew("b", << >>),
       [unique_id |-> "model.q.a", schema |-> "s", name |-> "a",
        resource_type |-> "model", depends_on |-> << "model.p.b" >>] >>

Projects ==
    { << NodeNew("a", da), NodeNew("b", db), NodeNew("c", dc) >> :
         da \in DepChoices, db \in DepChoices, dc \in DepChoices }
      \cup { ProjectTwins }

\* s.x is the display name of no node
UnitNames == { "s.a", "s.b", "s.c", "s.x" }

StartLineOf(name) == "1 of 3 START sql view model " \o name \o " ... [RUN]"

\* The unit tables parse_output_line builds from up to MaxUnits start
\* lines of distinct names
Tables ==
    { FeedLines(RunOutputNew("dbt run"),
                [i \in DOMAIN q |-> StartLineOf(q[i])]) :
        q \in { q \in UNION { [1..n -> UnitNames] : n \in 0..MaxUnits } :
                  \A i, j \in DOMAIN q : i # j => q[i] # q[j] } }

InitLayers ==
    /\ InitApp
    /\ run_history = << >>
    /\ po \in Tables
    /\ nodes \in Projects
    /\ fed = << >>
    /\ panicked = FALSE
    /\ calls = 0
    /\ passes = 0
    /\ lineage_graph = << >>

\* po.compute_layers(&nodes), the HashSet remaining iterating in any order
ComputeLayersCall ==
    /\ calls < MaxCalls
    /\ \E order \in Orders(run_model_names(po.model_runs)) :
         /\ po' = compute_layers_in(po, nodes, order)
         /\ passes' = model_layers_in(po.model_runs, nodes, order).passes
    /\ calls' = calls + 1
    /\ UNCHANGED << appVars, fed, panicked, nodes, lineage_graph >>

NextLayers == ComputeLayersCall

SpecLayers == InitLayers /\ [][NextLayers]_vars

(***************************************************************************)
(* LineageGraph::build on its own: any manifest                            *)
(***************************************************************************)
\* The nodes a manifest can hold: two models named a in two packages and a
\* model b
UnitOf(unique_id, depends_on) ==
    [unique_id |-> unique_id, schema |-> "s",
     name |-> from_unique_id(unique_id).name,
     resource_type |-> "model", depends_on |-> depends_on]

\* depends_on.nodes of such a node: nothing, a node (itself included), a
\* table of one of two sources, or two nodes
LineageDeps ==
    { << >>, << "model.p.a" >>, << "model.q.a" >>, << "model.p.b" >>,
      << "source.p.raw.c" >>, << "source.p.crm.c" >>,
      << "model.p.a", "model.p.b" >> }

\* services::filter_nodes(&manifest): the values of a map keyed by
\* unique_id, sorted; any of the three nodes may be missing
Manifests ==
    { SelectSeq(<< UnitOf("model.p.a", da), UnitOf("model.q.a", dq),
                   UnitOf("model.p.b", db) >>,
                LAMBDA n : n.unique_id \in present) :
        da \in LineageDeps, dq \in LineageDeps, db \in LineageDeps,
        present \in SUBSET { "model.p.a", "model.q.a", "model.p.b" } }

\* DomainState::new: no nodes and no lineage graph yet
InitLineage ==
    /\ InitApp
    /\ run_history = << >>
    /\ po = RunOutputNew("dbt run")
    /\ fed = << >>
    /\ panicked = FALSE
    /\ nodes = << >>
    /\ calls = 0
    /\ passes = 0
    /\ lineage_graph = << >>

\* app.rs:176-185 and 994-1003: all_nodes and the lineage graph are
\* replaced together when a manifest is loaded or loaded again
LoadManifest ==
    /\ calls < MaxCalls
    /\ \E manifest \in Manifests :
         /\ nodes' = manifest
         /\ lineage_graph' = << build(manifest) >>
    /\ calls' = calls + 1
    /\ UNCHANGED << appVars, po, fed, panicked, passes >>

NextLineage == LoadManifest

SpecLineage == InitLineage /\ [][NextLineage]_vars

\* The UI thread keeps running: inside Tick, a try_recv that has a message
\* to return returns it, and a poll or a layer computation that can end
\* ends.  The steps of Next that take a message from a channel are
\* PollRunRecv and PollSampleRecv; those that move the UI thread on are
\* PollRunEnd, TickComputeLayers and PollSampleEnd.  Nothing is assumed of
\* the background threads or of the user.
FairSpec ==
    /\ Spec
    /\ WF_chan(RunTryRecvOk \/ SampleTryRecvOk)
    /\ WF_ui(PollRunEnd \/ LayersDone \/ PollSampleEnd)

\* A step of the background thread of job j
RunCommandStep(j) ==
    \/ RunCommandSpawnOk(j)
    \/ RunCommandSpawnErr(j)
    \/ RunCommandReadLine(j)
    \/ RunCommandReadEnd(j)
    \/ RunCommandWait(j)

\* The UI thread keeps running and keeps ticking (the event loop sends
\* Action::Tick on every iteration), and every background thread keeps
\* running: its child prints its lines and exits, and the operating system
\* schedules the thread.  Nothing is assumed of the user.
LiveSpec ==
    /\ FairSpec
    /\ WF_vars(Tick)
    /\ \A j \in Jobs : WF_vars(RunCommandStep(j))

(***************************************************************************)
(* Properties                                                              *)
(***************************************************************************)
\* The run output is the execution that spawn returned for the job the
\* primary runner holds
PrimaryAttached ==
    job_runner # 0 /\ run_output # << >> /\ owner = job_runner

SampleAttached ==
    /\ sample_data_runner # 0
    /\ sample_data_output # << >>
    /\ sowner = sample_data_runner

\* This step is an iteration of the loop of poll that received a message
RunConsumes ==
    /\ ui.pc = "poll_run"
    /\ job_runner # 0
    /\ Len(recvd'[job_runner]) = Len(recvd[job_runner]) + 1

SampleConsumes ==
    /\ ui.pc = "poll_sample"
    /\ sample_data_runner # 0
    /\ Len(recvd'[sample_data_runner]) = Len(recvd[sample_data_runner]) + 1

\* This step is the return of poll
RunPollReturns == ui.pc = "poll_run" /\ ui'.pc = "layers"

SamplePollReturns == ui.pc = "poll_sample" /\ ui'.pc = "idle"

Terminal(status) == status \in { "Success", "Failed" }

HasType(msgs, type) == \E i \in 1..Len(msgs) : msgs[i].type = type

\* C1: when poll consumes Completed(exit_code) the status of the execution
\* it polls into becomes Success if and only if exit_code is Some(0), and
\* Failed for every other code and for no code; the buffer is left alone.
C1_CompletedSetsStatus ==
    [][ /\ ( RunConsumes /\ Head(chan[job_runner]).type = "Completed" ) =>
             /\ ( run_output'[1].status = "Success" <=>
                    Head(chan[job_runner]).code = SomeCode(0) )
             /\ ( run_output'[1].status = "Failed" <=>
                    Head(chan[job_runner]).code # SomeCode(0) )
             /\ run_output'[1].output = run_output[1].output
        /\ ( SampleConsumes /\
             Head(chan[sample_data_runner]).type = "Completed" ) =>
             /\ ( ui'.temp[1].status = "Success" <=>
                    Head(chan[sample_data_runner]).code = SomeCode(0) )
             /\ ( ui'.temp[1].status = "Failed" <=>
                    Head(chan[sample_data_runner]).code # SomeCode(0) )
      ]_vars

\* A process that ended without an exit code was polled: Failed
C1_Witness ==
    /\ PrimaryAttached
    /\ recvd[job_runner] # << >>
    /\ recvd[job_runner][Len(recvd[job_runner])] = Completed(NoCode)
    /\ run_output[1].status = "Failed"

UnitStatuses(ro) ==
    [i \in 1..Len(ro.model_runs) |->
        << ro.model_runs[i].name, ro.model_runs[i].status >>]

\* C2: once the current run output is Success or Failed, no step of a tick
\* (the poll, the layer computation) changes its status, its raw output or
\* the names and statuses of its model runs.
C2_TerminalIsImmutable ==
    [][ ( /\ ui.pc \in { "poll_run", "layers" }
          /\ run_output # << >>
          /\ Terminal(run_output[1].status) ) =>
            /\ run_output' # << >>
            /\ run_output'[1].status = run_output[1].status
            /\ run_output'[1].output = run_output[1].output
            /\ UnitStatuses(run_output'[1]) = UnitStatuses(run_output[1])
      ]_vars

\* A line as sent, or with its ANSI escape sequences removed
Clean(text, clean) == IF clean THEN strip_ansi_codes(text) ELSE text

RECURSIVE Rendered(_, _)
\* What poll appends to the buffer for msgs
Rendered(msgs, clean) ==
    IF msgs = << >> THEN ""
    ELSE LET m == msgs[Len(msgs)]
         IN  Rendered(SubSeq(msgs, 1, Len(msgs) - 1), clean) \o
             ( IF m.type = "Output" THEN Clean(m.text, clean) \o "\n"
               ELSE IF m.type = "Error" THEN "\nError: " \o m.text \o "\n"
               ELSE "" )

\* The lines of the Output messages of msgs
OutputLines(msgs, clean) ==
    LET outs == SelectSeq(msgs, LAMBDA m : m.type = "Output")
    IN  [i \in 1..Len(outs) |-> Clean(outs[i].text, clean)]

\* The fields of the model runs that parse_output_line sets
Parsed(ro) ==
    [i \in 1..Len(ro.model_runs) |->
        [ro.model_runs[i] EXCEPT !.layer = None, !.upstream_deps = << >>]]

\* The channel of an attached job is FIFO and loses nothing
C3_Fifo == \A j \in Jobs : rx[j] => recvd[j] \o chan[j] = sent[j]

\* Buffer and parsed lines are the lines received
C3_Applied(clean) ==
    /\ ( PrimaryAttached /\ ui.pc # "panicked" ) =>
         /\ run_output[1].output = Rendered(recvd[job_runner], clean)
         /\ Parsed(run_output[1]) =
              Parsed(FeedLines(RunOutputNew(run_output[1].command),
                               OutputLines(recvd[job_runner], clean)))
    /\ ( SampleAttached /\ ui.pc = "idle" ) =>
         sample_data_output[1].raw_output =
           Rendered(recvd[sample_data_runner], clean)
    /\ ( SampleAttached /\ ui.pc = "poll_sample" ) =>
         ui.temp[1].output = Rendered(recvd[sample_data_runner], clean)

\* When Completed has been applied, every line sent has been applied
C3_CompletedLast(clean) ==
    ( PrimaryAttached /\ HasType(recvd[job_runner], "Completed") ) =>
      /\ chan[job_runner] = << >>
      /\ run_output[1].output = Rendered(sent[job_runner], clean)

\* poll returns only when nothing is buffered
C3_Drains ==
    /\ ( RunPollReturns /\ job_runner # 0 ) => chan[job_runner] = << >>
    /\ ( SamplePollReturns /\ sample_data_runner # 0 ) =>
         chan[sample_data_runner] = << >>

C4_Disconnected ==
    [][ /\ ( /\ RunPollReturns
             /\ IF job_runner = 0 THEN FALSE
                ELSE try_recv(job_runner) = "Disconnected" ) =>
             IF run_output[1].status = "Running"
             THEN run_output'[1] = [run_output[1] EXCEPT !.status = "Failed"]
             ELSE run_output' = run_output
        /\ ( /\ SamplePollReturns
             /\ IF sample_data_runner = 0 THEN FALSE
                ELSE try_recv(sample_data_runner) = "Disconnected" ) =>
             /\ sample_data_output'[1].raw_output = ui.temp[1].output
             /\ sample_data_output'[1].status =
                  IF ui.temp[1].status = "Running" THEN "Failed"
                  ELSE ui.temp[1].status
      ]_vars

\* A Running execution met a disconnected channel with nothing to receive:
\* it is Failed and its buffer is what it was
C4_Witness ==
    /\ ui.pc = "layers"
    /\ ~ui.had_updates
    /\ job_runner # 0
    /\ threads[job_runner].pc = "done"
    /\ chan[job_runner] = << >>
    /\ owner = 0
    /\ run_output = << [Rehydrate(EntryRunning) EXCEPT !.status = "Failed"] >>

\* C5: a failure to spawn the command or to read its output is delivered as
\* an Error message (to a receiver that is still there).
C5_FailuresAreDelivered ==
    \A j \in Jobs :
        ( threads[j].pc = "done" /\ threads[j].failure # "none" /\ rx[j] ) =>
          HasType(sent[j], "Error")

\* C6: poll on a runner with no job returns false and leaves the execution
\* passed to it unchanged.
C6_NoJobNoChange ==
    [][ /\ ( ui.pc = "poll_run" /\ job_runner = 0 /\ ui' # ui ) =>
             /\ RunPollReturns
             /\ ~ui'.had_updates
             /\ run_output' = run_output
        /\ ( ui.pc = "poll_sample" /\ sample_data_runner = 0 /\ ui' # ui ) =>
             /\ SamplePollReturns
             /\ sample_data_output' = sample_data_output
      ]_vars

\* poll returned on a runner whose job had been cleared
C6_Witness ==
    /\ ui.pc = "layers"
    /\ job_runner = 0
    /\ nrun > 0
    /\ run_output # << >>
    /\ ~ui.had_updates

\* Spawned and no longer held by a runner
Detached(j) ==
    j <= njobs /\ j # job_runner /\ j # sample_data_runner

\* C7: the receiver of a detached job is gone with what was queued in it;
\* nothing more is received from it, its thread sends nothing more and, if
\* it was forwarding lines, its next step leaves the loop for child.wait();
\* no step ends the child other than the child itself.
C7_DetachedIsDropped ==
    /\ [](\A j \in Jobs : Detached(j) => ~rx[j] /\ chan[j] = << >>)
    /\ [][ \A j \in Jobs : Detached(j) =>
             /\ recvd'[j] = recvd[j]
             /\ chan'[j] = << >>
             /\ ( threads[j].pc = "read" /\ threads'[j] # threads[j] ) =>
                  threads'[j].pc = "wait"
             /\ ( threads'[j].pc = "done" /\ threads[j].pc # "done" ) =>
                  threads[j].pc \in { "wait", "spawn" }
         ]_vars

\* A thread whose job was detached while it ran has left the loop and ended
C7_Witness ==
    \E j \in Jobs :
        /\ Detached(j)
        /\ threads[j].pc = "done"
        /\ threads[j].failure = "none"
        /\ run_output = << >>

\* C8: every call of poll returns, whatever the background thread does
\* meanwhile (the child prints finitely many lines).
C8_PollReturns ==
    /\ ( ui.pc = "poll_run" ) ~> ( ui.pc # "poll_run" )
    /\ ( ui.pc = "poll_sample" ) ~> ( ui.pc # "poll_sample" )

\* poll has returned with updates while the thread is still reading
C8_Witness ==
    /\ ui.pc = "layers"
    /\ ui.had_updates
    /\ job_runner # 0
    /\ threads[job_runner].pc = "read"
    /\ chan[job_runner] = << >>

\* C9: each runner holds only jobs of its own commands and the two never
\* hold the same job; a step changes the job of at most one runner; the poll
\* of one runner receives only from its own job and changes nothing of the
\* other runner's job or output.
C9_Independent ==
    /\ []( /\ job_runner # 0 =>
                /\ job_runner # sample_data_runner
                /\ threads[job_runner].command # "dbt show"
           /\ sample_data_runner # 0 =>
                threads[sample_data_runner].command = "dbt show" )
    /\ [][ /\ job_runner' # job_runner =>
                /\ sample_data_runner' = sample_data_runner
                /\ sample_data_output' = sample_data_output
                /\ sample_data_runner # 0 =>
                     /\ chan'[sample_data_runner] = chan[sample_data_runner]
                     /\ rx'[sample_data_runner]
           /\ sample_data_runner' # sample_data_runner =>
                /\ job_runner' = job_runner
                /\ run_output' = run_output
                /\ job_runner # 0 =>
                     /\ chan'[job_runner] = chan[job_runner]
                     /\ rx'[job_runner]
           /\ \A j \in Jobs :
                Len(recvd'[j]) > Len(recvd[j]) =>
                  IF ui.pc = "poll_run"
                  THEN /\ j = job_runner
                       /\ sample_data_output' = sample_data_output
                       /\ sample_data_runner' = sample_data_runner
                  ELSE /\ ui.pc = "poll_sample"
                       /\ j = sample_data_runner
                       /\ run_output' = run_output
                       /\ job_runner' = job_runner
         ]_vars

\* Output of the sample command was applied while the thread of a primary
\* command was still running
C9_Witness ==
    /\ SampleAttached
    /\ sample_data_output[1].raw_output # ""
    /\ \E j \in Jobs :
         /\ j # sample_data_runner
         /\ threads[j].pc = "read"
         /\ threads[j].command # "dbt show"

\* C10: whatever lines were fed to parse_output_line, in whatever order, no
\* two model runs of the execution have the same name.
C10_UniqueNames ==
    \A i, k \in 1..Len(po.model_runs) :
        i # k => po.model_runs[i].name # po.model_runs[k].name

\* Completion before start, then the completion again: one model run
C10_Witness ==
    /\ fed = << LineOkAClean, LineStartA, LineOkAClean >>
    /\ Len(po.model_runs) = 1
    /\ po.model_runs[1].name = "s.a"

\* This step feeds a line to parse_output_line, which returns
Feeds(line) ==
    /\ fed' = Append(fed, line)
    /\ ~panicked'

\* C11: a start line for a name that already has a model run, Running or
\* completed, leaves the model runs as they are; a start line fed twice
\* gives what it gives fed once: one model run, Running.
C11_FirstStartWins ==
    /\ [][ \A line \in ParseLines :
             ( /\ Feeds(line)
               /\ IsStartLine(line)
               /\ extract_model_name(line).some
               /\ \E i \in 1..Len(po.model_runs) :
                    po.model_runs[i].name = extract_model_name(line).val ) =>
               po' = po ]_vars
    /\ [](\A line \in ParseLines :
             ( IsStartLine(line) /\ extract_model_name(line).some
               /\ fed = << line, line >> ) =>
               /\ po = parse_output_line(RunOutputNew("dbt run"), line)
               /\ Len(po.model_runs) = 1
               /\ po.model_runs[1].name = extract_model_name(line).val
               /\ po.model_runs[1].status = "Running")

\* A start line came after the completion of its model run and after an
\* earlier start line
C11_Witness ==
    /\ fed = << LineStartA, LineOkAClean, LineStartA >>
    /\ Len(po.model_runs) = 1
    /\ po.model_runs[1].status = "Success"

\* The outcome tokens of a line and the status each stands for
OutcomeTokens(line) ==
    { t \in { " OK ", " ERROR ", " SKIP " } : Contains(line, t) }

StatusOfToken(t) ==
    IF t = " OK " THEN "Success" ELSE IF t = " ERROR " THEN "Failed"
    ELSE "Skipped"

\* A line with the model marker, one outcome token and a name, that is not
\* a start line
CompletionOf(line, t) ==
    /\ Contains(line, " model ")
    /\ ~Contains(line, " START ")
    /\ OutcomeTokens(line) = { t }
    /\ extract_model_name(line).some

CustomersRun(result_info) ==
    [name |-> "staging.stg_customers", model_type |-> "view",
     status |-> "Success", duration |-> Some("0.42"),
     result_info |-> Some(result_info), step |-> Some("1 of 1"),
     upstream_deps |-> << >>, layer |-> 0]

\* C13 as stated: the START line and the OK line of staging.stg_customers
\* give one model run with type view, status Success, duration 0.42 and
\* annotation "created sql view model staging.stg_customers".
C13_AnnotationIsLineText ==
    fed = << LineStartCustomers, LineOkCustomers >> =>
      po.model_runs =
        << CustomersRun("created sql view model staging.stg_customers") >>

\* C13: the START line and the OK line of staging.stg_customers give one
\* model run with type view, status Success, duration 0.42 and, as
\* annotation, the bracket content before " in ":
\* "view model staging.stg_customers".
C13_AnnotationIsBracketText ==
    fed = << LineStartCustomers, LineOkCustomers >> =>
      po.model_runs = << CustomersRun("view model staging.stg_customers") >>

C13_Witness ==
    /\ fed = << LineStartCustomers, LineOkCustomers >>
    /\ Len(po.model_runs) = 1
    /\ po.model_runs[1].duration = Some("0.42")

\* C14: parse_output_line returns for every line fed to it: no line makes
\* it panic.
C14_ParserReturns == ~panicked

\* C15: between ticks, a finished run that is still the execution spawn
\* returned has the model runs (names, order, types, statuses, durations,
\* annotations, steps, layers, upstream lists) that OpenRunOutput rebuilds
\* from the history entry save_to_history makes of it.
C15_RehydrateMatchesLive ==
    ( PrimaryAttached /\ ui.pc = "idle" /\ Terminal(run_output[1].status) ) =>
      Rehydrate(save_to_history(run_history, run_output)[1]).model_runs =
        run_output[1].model_runs

\* A run of this session with two model runs in two layers was saved on
\* CloseModal and is shown again from the history
C15_Witness ==
    /\ nrun = 1
    /\ job_runner = 0
    /\ owner = 0
    /\ run_output # << >>
    /\ run_history # << >>
    /\ run_output[1] = Rehydrate(run_history[1])
    /\ Len(run_output[1].model_runs) = 2
    /\ run_output[1].model_runs[1].layer = 1
    /\ run_output[1].model_runs[2].layer = 0

\* The layer compute_layers gave the unit of this name
LayerOf(name) == po.model_runs[IndexOfName(po.model_runs, name)].layer

UnitsOfRun == run_model_names(po.model_runs)

\* m depends on d, both in the run, as the project declares it
InRunEdges ==
    { e \in UnitsOfRun \X UnitsOfRun :
        e[2] \in Range(deps_in_run(po.model_runs, nodes, e[1])) }

\* No unit of the run is its own upstream, directly or through others: the
\* units can be ranked so that every dependency ranks lower
Acyclic ==
    \E rank \in [UnitsOfRun -> 1..Cardinality(UnitsOfRun)] :
        \A e \in InRunEdges : rank[e[2]] < rank[e[1]]

\* C16 as stated: after compute_layers every unit's layer is strictly
\* greater than the layer of each unit in its upstream list, whatever the
\* dependencies are.
C16_StrictlyAboveUpstream ==
    calls >= 1 =>
      \A i \in 1..Len(po.model_runs) :
        \A dep \in Range(po.model_runs[i].upstream_deps) :
            LayerOf(dep) < po.model_runs[i].layer

\* C16: after compute_layers no unit's layer is below the layer of a unit in
\* its upstream list, and it is strictly greater when the in-run
\* dependencies have no cycle.
C16_AboveUpstream ==
    calls >= 1 =>
      \A i \in 1..Len(po.model_runs) :
        \A dep \in Range(po.model_runs[i].upstream_deps) :
            /\ LayerOf(dep) <= po.model_runs[i].layer
            /\ Acyclic => LayerOf(dep) < po.model_runs[i].layer

\* A unit with two upstream units in different layers was layered above both
C16_Witness ==
    /\ calls >= 1
    /\ Acyclic
    /\ \E i \in 1..Len(po.model_runs) :
         /\ po.model_runs[i].layer = 2
         /\ Len(po.model_runs[i].upstream_deps) = 2
         /\ { LayerOf(dep) : dep \in Range(po.model_runs[i].upstream_deps) }
              = { 0, 1 }

\* The project of the chain a -> b -> c and of the diamond a, b -> c
ChainNodes ==
    << NodeNew("a", << >>), NodeNew("b", << "model.p.a" >>),
       NodeNew("c", << "model.p.b" >>) >>

DiamondNodes ==
    << NodeNew("a", << >>), NodeNew("b", << >>),
       NodeNew("c", << "model.p.a", "model.p.b" >>) >>

WholeRun == UnitsOfRun = { "s.a", "s.b", "s.c" }

\* C17: when the in-run dependencies have no cycle, compute_layers gives a
\* unit layer 0 if it has no in-run dependency and otherwise one more than
\* the greatest layer of its in-run dependencies; the chain a -> b -> c
\* wholly in the run gets 0, 1, 2 and the diamond a, b -> c gets 0, 0, 1.
C17_LongestPath ==
    ( calls >= 1 /\ Acyclic ) =>
      /\ \A m \in UnitsOfRun :
           LET deps == Range(deps_in_run(po.model_runs, nodes, m))
           IN  LayerOf(m) = IF deps = {} THEN 0
                            ELSE 1 + Max({ LayerOf(dep) : dep \in deps })
      /\ ( nodes = ChainNodes /\ WholeRun ) =>
           /\ LayerOf("s.a") = 0
           /\ LayerOf("s.b") = 1
           /\ LayerOf("s.c") = 2
      /\ ( nodes = DiamondNodes /\ WholeRun ) =>
           /\ LayerOf("s.a") = 0
           /\ LayerOf("s.b") = 0
           /\ LayerOf("s.c") = 1

\* The chain, reported by the run in the order c, a, b, has been layered
C17_Witness ==
    /\ calls >= 1
    /\ nodes = ChainNodes
    /\ Len(po.model_runs) = 3
    /\ po.model_runs[1].name = "s.c" /\ po.model_runs[1].layer = 2
    /\ po.model_runs[2].name = "s.a" /\ po.model_runs[2].layer = 0
    /\ po.model_runs[3].name = "s.b" /\ po.model_runs[3].layer = 1

\* The display name of the node an identifier of depends_on names; "" when
\* the project has no such node
NameOfId(id) ==
    IF \E i \in DOMAIN nodes : nodes[i].unique_id = id
    THEN DisplayName(nodes[CHOOSE i \in DOMAIN nodes :
                               /\ nodes[i].unique_id = id
                               /\ \A j \in 1..(i - 1) :
                                     nodes[j].unique_id # id])
    ELSE ""

\* The node the unit of this name resolves to: the last of the project
\* that displays as the name; 0 when none does
ResolvedNode(name) ==
    IF \E i \in DOMAIN nodes : DisplayName(nodes[i]) = name
    THEN CHOOSE i \in DOMAIN nodes :
           /\ DisplayName(nodes[i]) = name
           /\ \A j \in (i + 1)..Len(nodes) : DisplayName(nodes[j]) # name
    ELSE 0

\* What the node of a unit declares as upstream, as display names, in the
\* declared order, restricted to the units of the run
DeclaredInRun(name) ==
    IF ResolvedNode(name) = 0 THEN << >>
    ELSE LET declared == nodes[ResolvedNode(name)].depends_on
         IN  SelectSeq([i \in DOMAIN declared |-> NameOfId(declared[i])],
                       LAMBDA d : d \in UnitsOfRun)

\* C18: after compute_layers the upstream list of a unit is what its node
\* declares upstream, as display names, restricted to the units of the run:
\* dependencies out of the run, on unknown identifiers, and units without a
\* node give nothing; a unit with an empty list is in layer 0; the partial
\* run b, c of the chain a -> b -> c gets b = 0, c = 1.
C18_UpstreamIsDeclaredInRun ==
    calls >= 1 =>
      /\ \A i \in 1..Len(po.model_runs) :
           /\ po.model_runs[i].upstream_deps =
                DeclaredInRun(po.model_runs[i].name)
           /\ ResolvedNode(po.model_runs[i].name) = 0 =>
                po.model_runs[i].upstream_deps = << >>
           /\ po.model_runs[i].upstream_deps = << >> =>
                po.model_runs[i].layer = 0
      /\ ( nodes = ChainNodes /\ UnitsOfRun = { "s.b", "s.c" } ) =>
           /\ LayerOf("s.b") = 0
           /\ LayerOf("s.c") = 1

\* The partial run b, c of the chain has been layered: b has lost its
\* dependency on a, c keeps b
C18_Witness ==
    /\ calls >= 1
    /\ nodes = ChainNodes
    /\ Len(po.model_runs) = 2
    /\ po.model_runs[1].name = "s.b"
    /\ po.model_runs[1].upstream_deps = << >>
    /\ po.model_runs[1].layer = 0
    /\ po.model_runs[2].name = "s.c"
    /\ po.model_runs[2].upstream_deps = << "s.b" >>
    /\ po.model_runs[2].layer = 1

\* C19: a call of compute_layers gives the layers and upstream lists that
\* every iteration order of its sets gives, and a second call on the
\* resulting table with the same project changes nothing.
C19_IdempotentDeterministic ==
    [][ calls' = calls + 1 =>
          /\ \A order \in Orders(UnitsOfRun) :
               po'.model_runs = compute_layers_in(po, nodes, order).model_runs
          /\ calls >= 1 => po' = po ]_vars

\* compute_layers ran twice on a table of three units, two of them on a
\* cycle and layered after the third
C19_Witness ==
    /\ calls = 2
    /\ Len(po.model_runs) = 3
    /\ ~Acyclic
    /\ { po.model_runs[i].layer : i \in 1..3 } = { 0, 1 }

\* s.a depends on itself and on s.b, s.b on s.a, and s.c is downstream of
\* the cycle
CycleNodes ==
    << NodeNew("a", << "model.p.a", "model.p.b" >>),
       NodeNew("b", << "model.p.a" >>),
       NodeNew("c", << "model.p.a" >>) >>

\* C20: a call of compute_layers returns, for cyclic in-run dependencies,
\* self-dependencies and units downstream of a cycle too, after at most as
\* many passes of its loop as the run has units.
C20_PassesBounded ==
    calls >= 1 => passes <= Len(po.model_runs)

\* compute_layers returned on a self-dependency, a cycle of two and a unit
\* downstream of it, after the one pass that found nothing to assign
C20_Witness ==
    /\ calls >= 1
    /\ nodes = CycleNodes
    /\ WholeRun
    /\ passes = 1
    /\ \A i \in 1..Len(po.model_runs) : po.model_runs[i].layer = 0

\* The identifiers a lineage query is made for: those of nodes, of sources
\* and one that no manifest mentions
QueryIds ==
    { "model.p.a", "model.q.a", "model.p.b", "source.p.raw.c",
      "source.p.crm.c", "model.p.zz" }

\* x appears in upstream-of(y): the list holds the entry build makes of x
InUpstreamOf(x, y) ==
    from_unique_id(x) \in Range(get_upstream(lineage_graph[1], y))

\* y appears in downstream-of(x): the list holds the entry build makes of
\* the node y
InDownstreamOf(y, x) ==
    \E i \in DOMAIN nodes :
        /\ nodes[i].unique_id = y
        /\ from_node(nodes[i]) \in Range(get_downstream(lineage_graph[1], x))

\* y declares x as upstream
Declares(y, x) ==
    \E i \in DOMAIN nodes :
        nodes[i].unique_id = y /\ x \in Range(nodes[i].depends_on)

\* C21: after build, x appears in upstream-of(y) if and only if y appears
\* in downstream-of(x), for all identifiers x and y, and every declared edge
\* is in both lists, edges to identifiers outside the list included.
C21_Symmetric ==
    lineage_graph # << >> =>
      \A x \in QueryIds, y \in QueryIds :
        /\ InUpstreamOf(x, y) <=> InDownstreamOf(y, x)
        /\ Declares(y, x) => InUpstreamOf(x, y) /\ InDownstreamOf(y, x)

\* Every declared edge is recorded in both lists, and each list has one
\* entry for each declared edge
C21_DeclaredEdgesRecorded ==
    lineage_graph # << >> =>
      /\ \A x \in QueryIds, y \in QueryIds :
           Declares(y, x) => InUpstreamOf(x, y) /\ InDownstreamOf(y, x)
      /\ \A i \in DOMAIN nodes :
           Len(get_upstream(lineage_graph[1], nodes[i].unique_id)) =
             Len(nodes[i].depends_on)
      /\ \A x \in QueryIds :
           Len(get_downstream(lineage_graph[1], x)) =
             Cardinality({ i \in DOMAIN nodes : x \in Range(nodes[i].depends_on) })

\* s.a of package p and s.b depend on each other and s.a of package q on
\* itself
CyclicManifest ==
    << UnitOf("model.p.a", << "model.p.b" >>),
       UnitOf("model.q.a", << "model.q.a" >>),
       UnitOf("model.p.b", << "model.p.a" >>) >>

\* C22: build makes a graph of every list, cyclic and self-referential ones
\* included, keeping every node and every declared edge, and a query for an
\* identifier that is not a key returns the empty list.
C22_NoErrorOutcome ==
    lineage_graph # << >> =>
      /\ DOMAIN lineage_graph[1].upstream =
           { nodes[i].unique_id : i \in DOMAIN nodes }
      /\ \A i \in DOMAIN nodes :
           /\ Len(get_upstream(lineage_graph[1], nodes[i].unique_id)) =
                Len(nodes[i].depends_on)
           /\ \A dep_id \in Range(nodes[i].depends_on) :
                from_node(nodes[i]) \in
                  Range(get_downstream(lineage_graph[1], dep_id))
      /\ \A id \in QueryIds :
           /\ id \notin { nodes[i].unique_id : i \in DOMAIN nodes } =>
                get_upstream(lineage_graph[1], id) = << >>
           /\ (\A i \in DOMAIN nodes : id \notin Range(nodes[i].depends_on)) =>
                get_downstream(lineage_graph[1], id) = << >>

\* The graph of the cyclic manifest was built and answers a query for an
\* identifier it does not have
C22_Witness ==
    /\ nodes = CyclicManifest
    /\ lineage_graph = << build(CyclicManifest) >>
    /\ Len(get_downstream(lineage_graph[1], "model.q.a")) = 1
    /\ Len(get_upstream(lineage_graph[1], "model.q.a")) = 1
    /\ get_upstream(lineage_graph[1], "model.p.zz") = << >>
    /\ get_downstream(lineage_graph[1], "model.p.zz") = << >>

\* The units compute_layers can order: the largest set of units of the run
\* that holds the in-run dependencies of its members and has no cycle
Orderable ==
    LET edges == InRunEdges
    IN  UNION { S \in SUBSET UnitsOfRun :
                  /\ \A e \in edges : e[1] \in S => e[2] \in S
                  /\ \E rank \in [S -> 1..Cardinality(S)] :
                       \A e \in edges :
                           e[1] \in S => rank[e[2]] < rank[e[1]] }

\* The members of cycles and the units that depend on them
Stuck == UnitsOfRun \ Orderable

\* C23: when the in-run dependencies have a cycle, the units on it and the
\* units that depend on them, directly or not, all get the layer after the
\* last layer of the other units; those keep the layers of the earlier
\* passes, and the loop ends with the pass that found nothing to assign.
C23_StuckUnitsShareLayer ==
    calls >= 1 =>
      LET orderable == Orderable
          before == { LayerOf(m) : m \in orderable }
          current_layer == IF before = {} THEN 0 ELSE 1 + Max(before)
      IN  orderable # UnitsOfRun =>
          /\ \A m \in UnitsOfRun \ orderable : LayerOf(m) = current_layer
          /\ \A m \in orderable :
               LET deps == Range(deps_in_run(po.model_runs, nodes, m))
               IN  LayerOf(m) = IF deps = {} THEN 0
                                ELSE 1 + Max({ LayerOf(dep) : dep \in deps })
          /\ passes = current_layer + 1

\* s.a was layered in the first pass; s.b and s.c, which depend on each
\* other, got layer 1 in the second, which ended the loop
C23_Witness ==
    /\ calls >= 1
    /\ nodes = << NodeNew("a", << >>), NodeNew("b", << "model.p.c" >>),
                  NodeNew("c", << "model.p.a", "model.p.b" >>) >>
    /\ WholeRun
    /\ Stuck = { "s.b", "s.c" }
    /\ LayerOf("s.a") = 0
    /\ LayerOf("s.b") = 1
    /\ LayerOf("s.c") = 1
    /\ passes = 2

\* A line without the tokens of a start line and without those of a
\* completion line, or a line whose model name is empty
Ignorable(line) ==
    \/ /\ ~( Contains(line, " START ") /\ Contains(line, " model ") )
       /\ ~( /\ Contains(line, " model ")
             /\ \/ Contains(line, " OK ")
                \/ Contains(line, " ERROR ")
                \/ Contains(line, " SKIP ") )
    \/ ~extract_model_name(line).some

\* C24: a line that is neither a start line nor a completion line, or whose
\* model name is empty, leaves the run output as it is, and
\* parse_output_line returns.
C24_OtherLinesIgnored ==
    [][ \A line \in ParseLines :
          ( fed' = Append(fed, line) /\ Ignorable(line) ) =>
            ( po' = po /\ ~panicked' ) ]_vars

\* After a start line, a summary line and a start line without a name were
\* fed
C24_Witness ==
    /\ fed = << LineStartA, LineDone, LineStartNoName >>
    /\ Ignorable(LineDone)
    /\ Ignorable(LineStartNoName)
    /\ ~panicked
    /\ Len(po.model_runs) = 1

\* C25: a message of the job the primary runner holds is only ever applied
\* to the run output that spawn returned for that job: whenever poll
\* receives a message, the current run output is that execution.
C25_PolledIntoOwnExecution ==
    [][ RunConsumes => PrimaryAttached ]_vars

\* The positions of the terminal messages among msgs
TerminalMessages(msgs) ==
    { i \in 1..Len(msgs) : msgs[i].type \in { "Completed", "Error" } }

\* C26: when the child of a command has exited and the UI keeps ticking with
\* the execution of that command attached, its status becomes Success or
\* Failed and stays so; a background thread sends one terminal message
\* (Completed or Error), after its Output messages, and no other.
C26_RunEnds ==
    /\ <>[]PrimaryAttached =>
         <>[](PrimaryAttached /\ Terminal(run_output[1].status))
    /\ [](\A j \in Jobs :
            /\ Cardinality(TerminalMessages(sent[j])) <= 1
            /\ TerminalMessages(sent[j]) \subseteq { Len(sent[j]) }
            /\ ( threads[j].pc = "done" /\ rx[j] ) =>
                 TerminalMessages(sent[j]) = { Len(sent[j]) })

\* The thread sent two lines and Completed, and the attached execution has
\* taken them all
C26_Witness ==
    /\ PrimaryAttached
    /\ threads[job_runner].pc = "done"
    /\ Len(sent[job_runner]) = 3
    /\ sent[job_runner][3].type = "Completed"
    /\ recvd[job_runner] = sent[job_runner]
    /\ Terminal(run_output[1].status)
    /\ ui.pc = "idle"

C28_CompletedStaysCompleted ==
    [][ fed' # fed =>
          /\ Len(po'.model_runs) >= Len(po.model_runs)
          /\ \A i \in 1..Len(po.model_runs) :
               /\ po'.model_runs[i].name = po.model_runs[i].name
               /\ po.model_runs[i].status \in { "Success", "Failed", "Skipped" } =>
                    po'.model_runs[i].status \in { "Success", "Failed", "Skipped" }
      ]_vars

\* After its ERROR line, s.b got a start line and then another unit started
C28_Witness ==
    /\ fed = << LineErrB, LineStartB, LineStartA >>
    /\ Len(po.model_runs) = 2
    /\ po.model_runs[1].name = "s.b"
    /\ po.model_runs[1].status = "Failed"
    /\ po.model_runs[2].status = "Running"

\* This step is Action::CloseModal on the run output view
ClosesRunOutput ==
    /\ ui.pc = "idle"
    /\ Top = "RunOutput"
    /\ modals' = Pop(modals)

\* C29: closing the run output view of an execution that is still Running,
\* or of one re-hydrated from a history entry, adds nothing to the history;
\* what a close adds is one entry with a terminal status, put first, and
\* the history never holds more than 100 entries.
C29_RecordedOnce ==
    [][ ClosesRunOutput =>
          /\ ( run_output # << >> /\ run_output[1].status = "Running" ) =>
               run_history' = run_history
          /\ ( run_output # << >> /\ owner = 0 ) =>
               run_history' = run_history
          /\ run_history' # run_history =>
               /\ Tail(run_history') = run_history
               /\ run_history'[1].status # "Running"
          /\ Len(run_history') <= HistoryCap
      ]_vars

\* What holds of a close of the run output view: a Running execution adds
\* nothing, and what is added is one entry with a terminal status, put
\* first
C29_SavesTerminalNewestFirst ==
    [][ ClosesRunOutput =>
          /\ ( run_output # << >> /\ run_output[1].status = "Running" ) =>
               run_history' = run_history
          /\ run_history' # run_history =>
               /\ Tail(run_history') = run_history
               /\ run_history'[1].status # "Running"
          /\ Len(run_history') <= HistoryCap
      ]_vars

\* The layer numbers of the model runs of the table
LayersUsed == { po.model_runs[i].layer : i \in 1..Len(po.model_runs) }

\* The places of get_models_by_layer at which the model run of this index
\* stands, as pairs of layer and position
PlacesOf(i) ==
    LET layers == get_models_by_layer(po)
    IN  { p \in UNION { { << l, k >> : k \in 1..Len(layers[l]) } :
                          l \in 1..Len(layers) } :
            layers[p[1]][p[2]] = po.model_runs[i] }

\* C30: after compute_layers on a table that is not empty the layer numbers
\* in use are 0..max with none missing, each below the number of units;
\* get_models_by_layer has max + 1 layers, none empty, and holds every
\* model run once, in the layer its layer field names.
C30_LayersGapless ==
    ( calls >= 1 /\ po.model_runs # << >> ) =>
      /\ LayersUsed = 0..Max(LayersUsed)
      /\ Max(LayersUsed) < Len(po.model_runs)
      /\ Len(get_models_by_layer(po)) = Max(LayersUsed) + 1
      /\ \A l \in 1..Len(get_models_by_layer(po)) :
           get_models_by_layer(po)[l] # << >>
      /\ \A i \in 1..Len(po.model_runs) :
           PlacesOf(i) \subseteq { p \in PlacesOf(i) :
                                     p[1] = po.model_runs[i].layer + 1 }
           /\ Cardinality(PlacesOf(i)) = 1

\* Three units were layered into two layers, two of them in the second
C30_Witness ==
    /\ calls >= 1
    /\ Len(po.model_runs) = 3
    /\ Len(get_models_by_layer(po)) = 2
    /\ Len(get_models_by_layer(po)[1]) = 1
    /\ Len(get_models_by_layer(po)[2]) = 2
    /\ Acyclic

====
